---- MODULE Spec2Model ----
(***************************************************************************)
(* Model of the console banking application of main.py: a SQLite database  *)
(* (tables users, accounts, transactions) with a CSV file as a secondary   *)
(* audit trail, driven by the menu loop of main().                         *)
(*                                                                         *)
(* Money is a Python float.  A finite amount is kept as a whole number of  *)
(* eighths of a dollar: such values and their sums are exact in binary     *)
(* floating point, so the float arithmetic of the program is exact on      *)
(* them, while the two-decimal formatting of the CSV log really rounds.    *)
(* The non-finite floats that float() parses (inf, -inf, nan) and the SQL  *)
(* NULL that SQLite stores for a nan are kept as separate values.          *)
(***************************************************************************)
EXTENDS Integers, Sequences, FiniteSets, TLC

VARIABLES
    users,          \* table users: rows [id, username, pin_hash, name]
    accounts,       \* table accounts: user_id -> [checking, savings]
    transactions,   \* table transactions, in rowid order
    userSeq,        \* sqlite_sequence of users (AUTOINCREMENT)
    txSeq,          \* sqlite_sequence of transactions (AUTOINCREMENT)
    csv,            \* rows of transactions.csv; <<>> when the file is absent
    pc,             \* "menu", "exited" or "crashed" (uncaught exception);
                    \* with two sessions: session -> its position and locals
    console,        \* what the last operation printed
    last            \* history: the inputs and outcome of the last operation

vars == <<users, accounts, transactions, userSeq, txSeq, csv, pc, console, last>>

\* Bounds of the model: the AUTOINCREMENT counters of the two tables.
MaxUserId == 4
MaxTxId == 2

(***************************************************************************)
(* Floats                                                                  *)
(***************************************************************************)
Fin(v) == [k |-> "fin", v |-> v]
Inf == [k |-> "inf", v |-> 0]
NegInf == [k |-> "ninf", v |-> 0]
NaN == [k |-> "nan", v |-> 0]
\* Python None / SQL NULL
None == [k |-> "null", v |-> 0]
\* the ValueError raised by float() on a non-numeric string
ValueError == [k |-> "ValueError", v |-> 0]

Eighths(dollars) == dollars * 8

\* float(s) on the input strings of the model
ParseFloat(s) ==
    CASE s = "-500" -> Fin(Eighths(-500))
      [] s = "100" -> Fin(Eighths(100))
      [] s = "-50" -> Fin(Eighths(-50))
      [] s = "0.125" -> Fin(1)
      [] s = "inf" -> Inf
      [] s = "-inf" -> NegInf
      [] s = "nan" -> NaN
      [] OTHER -> ValueError

\* a + b on floats
FloatAdd(a, b) ==
    CASE a.k = "nan" \/ b.k = "nan" -> NaN
      [] a.k = "fin" /\ b.k = "fin" -> Fin(a.v + b.v)
      [] a.k = "fin" -> b
      [] b.k = "fin" -> a
      [] a.k = b.k -> a
      [] OTHER -> NaN

\* x < 0 on floats: every comparison with nan is False
FloatLtZero(x) ==
    CASE x.k = "fin" -> x.v < 0
      [] x.k = "ninf" -> TRUE
      [] OTHER -> FALSE

\* the value SQLite stores for a bound float parameter: nan is stored as NULL
SqlBind(x) == IF x.k = "nan" THEN None ELSE x

Abs(n) == IF n < 0 THEN 0 - n ELSE n

\* hundredths of a dollar nearest to v eighths, ties to the even hundredth
RoundCents(v) ==
    LET a == Abs(v)
        twice == a * 25
        lo == twice \div 2
    IN  IF twice % 2 = 0 THEN lo
        ELSE IF lo % 2 = 0 THEN lo ELSE lo + 1

TwoDigits(n) == IF n < 10 THEN "0" \o ToString(n) ELSE ToString(n)

\* f"{x:.2f}"
Fmt2(x) ==
    CASE x.k = "inf" -> "inf"
      [] x.k = "ninf" -> "-inf"
      [] x.k = "nan" -> "nan"
      [] x.k = "fin" ->
            LET c == RoundCents(x.v)
            IN  (IF x.v < 0 THEN "-" ELSE "") \o ToString(c \div 100)
                    \o "." \o TwoDigits(c % 100)

(***************************************************************************)
(* Strings                                                                 *)
(***************************************************************************)
\* s.strip() on the input strings of the model
Strip(s) ==
    CASE s = " dave " -> "dave"
      [] s = " Dave Doe " -> "Dave Doe"
      [] s = " 1111 " -> "1111"
      [] s = " " -> ""
      [] OTHER -> s

\* s.upper() on the account-type inputs of the model
Upper(s) ==
    CASE s = "c" -> "C"
      [] s = "s" -> "S"
      [] s = "x" -> "X"
      [] OTHER -> s

\* pin_input.isdigit() and len(pin_input) == 4, on the PIN inputs of the model
IsFourDigits(s) == s \in {"1111", "2222", "3333", "4444", "9999"}

\* Mutant of hash_pin: the PIN is kept as entered.
hash_pin_clear(pin) == pin

\* SHA-256 hex digest of the PIN, taken to be collision free
hash_pin(pin) == "sha256(" \o pin \o ")"

\* datetime.now().isoformat(timespec='seconds'): the clock is not modelled
Now == "now"

(***************************************************************************)
(* Inputs typed at the prompts                                             *)
(***************************************************************************)
UsernameInputs == {"alice", " dave ", " "}
\* PINs typed at the prompt of make_transaction, and at the prompt of
\* create_account
PinInputs == {" 1111 ", "2222", "444"}
NewPinInputs == {"2222", "444"}
NameInputs == {" Dave Doe "}
CheckingInputs == {"-50", "abc", "nan"}
SavingsInputs == {"100"}
TypeInputs == {"c", "S", "x"}
AmountInputs == {"-500", "0.125", "nan", "abc"}
\* the storage call of make_transaction that raises, if any, in the order of
\* the calls; record_transaction is its INSERT, get_user_by_id the lookup
\* that follows the INSERT, ensure_csv_header the creation of the CSV file
\* and log_to_csv the append of the row
Failures ==
    {"none", "get_user", "get_balance", "update_balance", "record_transaction",
     "get_user_by_id", "ensure_csv_header", "log_to_csv"}

(***************************************************************************)
(* Database                                                                *)
(***************************************************************************)
sample_users ==
    << [username |-> "alice", pin_hash |-> hash_pin("1111"), name |-> "Alice Smith",
        checking |-> Fin(Eighths(1500)), savings |-> Fin(Eighths(500))],
       [username |-> "bob", pin_hash |-> hash_pin("2222"), name |-> "Bob Johnson",
        checking |-> Fin(Eighths(2500)), savings |-> Fin(Eighths(1000))],
       [username |-> "carla", pin_hash |-> hash_pin("3333"), name |-> "Carla Gomez",
        checking |-> Fin(Eighths(300)), savings |-> Fin(Eighths(700))] >>

\* the rows of users and accounts inserted by init_db into an empty database,
\* with ids seq+1 .. seq+3
SeedUsers(seq) ==
    { [id |-> seq + i, username |-> sample_users[i].username,
       pin_hash |-> sample_users[i].pin_hash, name |-> sample_users[i].name] :
      i \in 1..Len(sample_users) }

SeedAccounts(seq) ==
    [ uid \in {seq + i : i \in 1..Len(sample_users)} |->
        [checking |-> sample_users[uid - seq].checking,
         savings |-> sample_users[uid - seq].savings] ]

\* Mutant of get_user: the name column is compared, not the username.
get_user_by_name(username) == {u \in users : u.name = username}

\* SELECT ... FROM users WHERE username = ?: the set of matching rows
\* (empty when fetchone() returns None)
get_user(username) == {u \in users : u.username = username}

\* SELECT ... FROM users WHERE id = ?
get_user_by_id(user_id) == {u \in users : u.id = user_id}

\* the column of accounts selected by the account type
Column(account_type) == IF account_type = "C" THEN "checking" ELSE "savings"

get_balance(user_id, account_type) == accounts[user_id][Column(account_type)]

\* Mutant of update_balance: the UPDATE has no WHERE clause and sets the
\* column of every account.
update_balance_all(user_id, account_type, new_balance) ==
    [uid \in DOMAIN accounts |->
        [accounts[uid] EXCEPT ![Column(account_type)] = SqlBind(new_balance)]]

\* accounts after UPDATE accounts SET column = ? WHERE user_id = ?
update_balance(user_id, account_type, new_balance) ==
    IF user_id \in DOMAIN accounts
    THEN [accounts EXCEPT ![user_id][Column(account_type)] = SqlBind(new_balance)]
    ELSE accounts

\* the header row of the CSV file
CsvHeader == <<"timestamp", "username", "account_type", "old_balance", "amount", "new_balance">>

\* The CSV file is the sequence of its lines, each the sequence of its
\* fields; an absent file is the empty sequence, a file that exists and holds
\* no byte is EmptyFile.
EmptyFile == << <<>> >>

\* a field of which only a proper part reached the file
Partial == "..."

\* what a write of the line that raises partway leaves of it.  The line is
\* cut at any byte: inside a field (a field of one character has no inside),
\* at the end of a field, or after the comma of a field; a line of which
\* every field was written lacks its line end at most and reads as the line.
TornLines(line) ==
    {SubSeq(line, 1, k) \o <<Partial>> :
        k \in {j \in 0..(Len(line) - 1) : Len(line[j + 1]) > 1}}
    \cup {SubSeq(line, 1, k) : k \in 1..Len(line)}
    \cup {SubSeq(line, 1, k) \o <<"">> : k \in 1..(Len(line) - 1)}

\* Mutant of ensure_csv_header: the file is opened for writing, and its
\* content replaced by the header, whether it exists or not.
ensure_csv_header_always(file) == <<CsvHeader>>

\* the CSV file after ensure_csv_header: the header is written when the file
\* does not exist
ensure_csv_header(file) == IF file = <<>> THEN <<CsvHeader>> ELSE file

\* the file after open(CSV_LOG, 'a') and the write of one line
AppendLine(file, line) == IF file = EmptyFile THEN <<line>> ELSE Append(file, line)

\* the row written by log_to_csv
CsvRow(username, account_type, old_balance, amount, new_balance) ==
    <<Now, username, account_type,
      Fmt2(old_balance), Fmt2(amount), Fmt2(new_balance)>>

\* the CSV file after log_to_csv
log_to_csv(file, username, account_type, old_balance, amount, new_balance) ==
    AppendLine(ensure_csv_header(file),
               CsvRow(username, account_type, old_balance, amount, new_balance))

\* Mutant of TxRow: the old and the new balance are bound to each other's
\* column.
TxRowSwapped(id, user_id, account_type, old_balance, amount, new_balance) ==
    [id |-> id, user_id |-> user_id, account_type |-> account_type,
     old_balance |-> SqlBind(new_balance), amount |-> SqlBind(amount),
     new_balance |-> SqlBind(old_balance), timestamp |-> Now]

\* the row INSERTed into transactions by record_transaction
TxRow(id, user_id, account_type, old_balance, amount, new_balance) ==
    [id |-> id, user_id |-> user_id, account_type |-> account_type,
     old_balance |-> SqlBind(old_balance), amount |-> SqlBind(amount),
     new_balance |-> SqlBind(new_balance), timestamp |-> Now]

\* the NOT NULL constraints of transactions hold for the bound values
TxNotNull(old_balance, amount, new_balance) ==
    /\ SqlBind(old_balance) # None
    /\ SqlBind(amount) # None
    /\ SqlBind(new_balance) # None

\* Mutant of InsufficientFunds: the balance read is tested, not the sum.
InsufficientFundsOldOnly(old_balance, amount) == FloatLtZero(old_balance)

\* the insufficient-funds test of make_transaction
InsufficientFunds(old_balance, amount) == FloatLtZero(FloatAdd(old_balance, amount))

\* Mutant of PinRejected: only the format of the entry is tested.
PinRejectedFormatOnly(pin, user) == ~IsFourDigits(pin)

\* the PIN test of make_transaction: the hash of the entry differs from the
\* stored digest
PinRejected(pin, user) == hash_pin(pin) # user.pin_hash

(***************************************************************************)
(* History of the last operation (not program state)                       *)
(***************************************************************************)
NoCall ==
    [op |-> "init_db", username |-> "", pin |-> "", account_type |-> "",
     user_id |-> 0, old_balance |-> None, amount |-> None, new_balance |-> None,
     outcome |-> "", pin_mismatches |-> 0]

Call(op, username, outcome) == [NoCall EXCEPT !.op = op, !.username = username, !.outcome = outcome]

\* what init_db prints when it adds the sample accounts; the second message
\* is kept in pieces, so that the PINs it spells out are strings of their own
SeedMessages ==
    <<"Adding 3 sample test accounts...",
      "Sample accounts created: alice (", "1111", "), bob (", "2222",
      "), carla (", "3333", ")">>

(***************************************************************************)
(* Initial state: main() has run init_db on an absent database.  A run     *)
(* ends at the exit choice or at an uncaught exception.                    *)
(***************************************************************************)
Init ==
    /\ users = SeedUsers(0)
    /\ accounts = SeedAccounts(0)
    /\ transactions = <<>>
    /\ userSeq = Len(sample_users)
    /\ txSeq = 0
    /\ csv = <<>>
    /\ pc = "menu"
    /\ console = SeedMessages
    /\ last = NoCall

Db == <<users, accounts, transactions, userSeq, txSeq, csv>>

(***************************************************************************)
(* Menu choice 1                                                           *)
(***************************************************************************)
\* float(input(...)) with the ValueError handler of create_account
DepositOrZero(s) == IF ParseFloat(s) = ValueError THEN Fin(0) ELSE ParseFloat(s)

\* the database after create_user
create_user(user_id, username, name, pin_hash, checking, savings) ==
    /\ users' = users \cup
            {[id |-> user_id, username |-> username, pin_hash |-> pin_hash, name |-> name]}
    /\ accounts' = accounts @@
            (user_id :> [checking |-> SqlBind(checking), savings |-> SqlBind(savings)])
    /\ userSeq' = user_id

\* Each input is read only when the prompts before it have been passed.
create_account ==
    /\ pc = "menu"
    /\ \E uin \in UsernameInputs :
        LET username == Strip(uin)
        IN  IF username = ""
            THEN /\ console' = <<"Username cannot be empty.">>
                 /\ last' = Call("create_account", username, "empty")
                 /\ UNCHANGED <<Db, pc>>
            ELSE IF get_user(username) # {}
            THEN /\ console' = <<"Username already exists.">>
                 /\ last' = Call("create_account", username, "exists")
                 /\ UNCHANGED <<Db, pc>>
            ELSE \E pin_in \in NewPinInputs :
                LET pin_input == Strip(pin_in)
                IN  IF ~IsFourDigits(pin_input)
                    THEN /\ console' = <<"Invalid PIN format.">>
                         /\ last' = Call("create_account", username, "badpin")
                         /\ UNCHANGED <<Db, pc>>
                    ELSE \E name \in NameInputs, cin \in CheckingInputs,
                            sin \in SavingsInputs :
                         /\ userSeq < MaxUserId
                         /\ create_user(userSeq + 1, username, Strip(name), hash_pin(pin_input),
                                        DepositOrZero(cin), DepositOrZero(sin))
                         /\ console' = <<"Account created successfully.">>
                         /\ last' = [Call("create_account", username, "created")
                                        EXCEPT !.user_id = userSeq + 1]
                         /\ UNCHANGED <<transactions, txSeq, csv, pc>>

(***************************************************************************)
(* Menu choice 2                                                           *)
(***************************************************************************)
delete_account ==
    /\ pc = "menu"
    /\ \E uin \in UsernameInputs :
        LET username == Strip(uin)
            found == get_user(username)
        IN  IF found = {}
            THEN /\ console' = <<"User not found.">>
                 /\ last' = Call("delete_account", username, "notfound")
                 /\ UNCHANGED <<Db, pc>>
            ELSE LET user == CHOOSE u \in found : TRUE
                 IN  /\ transactions' = SelectSeq(transactions,
                                            LAMBDA t : t.user_id # user.id)
                     /\ accounts' = [uid \in DOMAIN accounts \ {user.id} |-> accounts[uid]]
                     /\ users' = {u \in users : u.id # user.id}
                     /\ console' = <<"Account deleted successfully.">>
                     /\ last' = [Call("delete_account", username, "deleted")
                                    EXCEPT !.user_id = user.id]
                     /\ UNCHANGED <<userSeq, txSeq, csv, pc>>

(***************************************************************************)
(* Menu choice 3                                                           *)
(***************************************************************************)
\* an uncaught exception ends the process with a traceback, after what the
\* operation had printed
Crash(printed, exc) ==
    /\ pc' = "crashed"
    /\ console' = printed \o <<"Traceback", exc>>

\* record_transaction: the INSERT, the lookup of the username, then the CSV
\* header and row; fail names the storage call that raises, if any.  The
\* INSERT is committed before the lookup, and the header is written and the
\* file closed before the file is opened for the row.  A write to the file
\* that raises leaves nothing, a part of the line cut at any byte, or the
\* line without its end in the file; the run ends there.
record_transaction(call, user_id, account_type, old_balance, amount, new_balance, fail) ==
    IF fail = "record_transaction"
    THEN /\ Crash(<<"Current balance">>, "OperationalError")
         /\ last' = [call EXCEPT !.outcome = "insert failed"]
         /\ UNCHANGED <<transactions, txSeq, csv>>
    ELSE IF ~TxNotNull(old_balance, amount, new_balance)
    THEN /\ Crash(<<"Current balance">>, "IntegrityError")
         /\ last' = [call EXCEPT !.outcome = "IntegrityError"]
         /\ UNCHANGED <<transactions, txSeq, csv>>
    ELSE /\ transactions' = Append(transactions,
                TxRow(txSeq + 1, user_id, account_type, old_balance, amount, new_balance))
         /\ txSeq' = txSeq + 1
         /\ LET user == get_user_by_id(user_id)
            IN  IF fail = "get_user_by_id"
                THEN /\ Crash(<<"Current balance">>, "OperationalError")
                     /\ last' = [call EXCEPT !.outcome = "lookup failed"]
                     /\ UNCHANGED csv
                ELSE IF user = {}
                THEN /\ console' = <<"Current balance", "Transaction complete.">>
                     /\ last' = [call EXCEPT !.outcome = "complete"]
                     /\ UNCHANGED <<csv, pc>>
                ELSE IF fail = "ensure_csv_header"
                THEN /\ Crash(<<"Current balance">>, "OSError")
                     /\ last' = [call EXCEPT !.outcome = "csv failed"]
                     /\ csv' \in IF csv = <<>>
                                 THEN {csv, EmptyFile}
                                      \cup {<<l>> : l \in TornLines(CsvHeader)}
                                 ELSE {csv}
                ELSE IF fail = "log_to_csv"
                THEN /\ Crash(<<"Current balance">>, "OSError")
                     /\ last' = [call EXCEPT !.outcome = "csv failed"]
                     /\ LET file == ensure_csv_header(csv)
                            row == CsvRow((CHOOSE u \in user : TRUE).username,
                                          account_type, old_balance, amount, new_balance)
                        IN  csv' \in {file}
                                     \cup {AppendLine(file, l) : l \in TornLines(row)}
                ELSE /\ csv' = log_to_csv(csv, (CHOOSE u \in user : TRUE).username,
                                          account_type, old_balance, amount, new_balance)
                     /\ console' = <<"Current balance", "Transaction complete.">>
                     /\ last' = [call EXCEPT !.outcome = "complete"]
                     /\ UNCHANGED pc

\* Mutant of WriteThenAudit: record_transaction is called first, so that a
\* balance write that raises leaves a record of a balance never stored.
AuditThenWrite(call, user_id, account_type, old_balance, amount, new_balance, fail) ==
    /\ record_transaction(call, user_id, account_type, old_balance, amount, new_balance,
                          IF fail = "update_balance" THEN "none" ELSE fail)
    /\ accounts' = IF fail = "update_balance"
                   THEN accounts
                   ELSE update_balance(user_id, account_type, new_balance)

\* the two writes of make_transaction, in the order of the code: the balance
\* write, then record_transaction; an exception in the first ends the run
\* before the second is called
WriteThenAudit(call, user_id, account_type, old_balance, amount, new_balance, fail) ==
    IF fail = "update_balance"
    THEN /\ Crash(<<"Current balance">>, "OperationalError")
         /\ last' = [call EXCEPT !.outcome = "update failed"]
         /\ UNCHANGED <<accounts, transactions, txSeq, csv>>
    ELSE /\ accounts' = update_balance(user_id, account_type, new_balance)
         /\ record_transaction(call, user_id, account_type,
                               old_balance, amount, new_balance, fail)

\* make_transaction from the balance read on, for an authenticated user and
\* a valid account type
Transact(call, user, account_type) ==
    LET old_balance == get_balance(user.id, account_type)
        call2 == [call EXCEPT !.old_balance = old_balance]
    IN  \/ /\ "get_balance" \in Failures
           /\ Crash(<<>>, "OperationalError")
           /\ last' = [call EXCEPT !.outcome = "get_balance failed"]
           /\ UNCHANGED Db
        \/ IF old_balance = None
            THEN \* formatting None in the "Current balance" message raises
                 /\ Crash(<<>>, "TypeError")
                 /\ last' = [call2 EXCEPT !.outcome = "TypeError"]
                 /\ UNCHANGED Db
            ELSE \E ain \in AmountInputs :
                LET amount == ParseFloat(ain)
                    new_balance == FloatAdd(old_balance, amount)
                IN  IF amount = ValueError
                    THEN /\ console' = <<"Current balance", "Invalid amount.">>
                         /\ last' = [call2 EXCEPT !.outcome = "badamount"]
                         /\ UNCHANGED <<Db, pc>>
                    ELSE IF InsufficientFunds(old_balance, amount)
                    THEN /\ console' = <<"Current balance", "Insufficient funds.">>
                         /\ last' = [call2 EXCEPT !.amount = amount,
                                                  !.outcome = "insufficient"]
                         /\ UNCHANGED <<Db, pc>>
                    ELSE \E fail \in Failures \ {"get_user", "get_balance"} :
                        LET call3 == [call2 EXCEPT !.amount = amount,
                                                   !.new_balance = new_balance]
                        IN  /\ txSeq < MaxTxId
                            /\ UNCHANGED <<users, userSeq>>
                            /\ WriteThenAudit(call3, user.id, account_type,
                                              old_balance, amount, new_balance, fail)

make_transaction ==
    /\ pc = "menu"
    /\ \E uin \in UsernameInputs :
        LET username == Strip(uin)
            found == get_user(username)
        IN  \/ /\ "get_user" \in Failures
               /\ Crash(<<>>, "OperationalError")
               /\ last' = Call("make_transaction", username, "get_user failed")
               /\ UNCHANGED Db
            \/ IF found = {}
                THEN /\ console' = <<"No such user.">>
                     /\ last' = Call("make_transaction", username, "nouser")
                     /\ UNCHANGED <<Db, pc>>
                ELSE \E pin_in \in PinInputs :
                    LET user == CHOOSE u \in found : TRUE
                        pin == Strip(pin_in)
                        call == [Call("make_transaction", username, "")
                                    EXCEPT !.pin = pin, !.user_id = user.id]
                    IN  IF PinRejected(pin, user)
                        THEN /\ console' = <<"Invalid PIN.">>
                             /\ last' = [call EXCEPT !.outcome = "badpin",
                                                     !.pin_mismatches = 1]
                             /\ UNCHANGED <<Db, pc>>
                        ELSE \E tin \in TypeInputs :
                            LET account_type == Upper(Strip(tin))
                            IN  IF account_type \notin {"C", "S"}
                                THEN /\ console' = <<"Invalid account type.">>
                                     /\ last' = [call EXCEPT !.account_type = account_type,
                                                             !.outcome = "badtype"]
                                     /\ UNCHANGED <<Db, pc>>
                                ELSE Transact([call EXCEPT !.account_type = account_type],
                                              user, account_type)

(***************************************************************************)
(* Menu choices 4, 5 and anything else                                     *)
(***************************************************************************)
\* view_statistics only reads; the figures it prints are not modelled
view_statistics ==
    /\ pc = "menu"
    /\ console' = <<"Average Checking", "Average Savings",
                    "Users above average (Checking)", "Users above average (Savings)">>
    /\ last' = Call("view_statistics", "", "")
    /\ UNCHANGED <<Db, pc>>

exit ==
    /\ pc = "menu"
    /\ pc' = "exited"
    /\ console' = <<"Goodbye!">>
    /\ last' = Call("exit", "", "")
    /\ UNCHANGED Db

invalid_choice ==
    /\ pc = "menu"
    /\ console' = <<"Invalid choice. Try again.">>
    /\ last' = Call("invalid_choice", "", "")
    /\ UNCHANGED <<Db, pc>>

Next ==
    \/ create_account
    \/ delete_account
    \/ make_transaction
    \/ view_statistics
    \/ invalid_choice
    \/ exit

Spec == Init /\ [][Next]_vars

TypeOK ==
    /\ pc \in {"menu", "exited", "crashed"}
    /\ DOMAIN accounts = {u.id : u \in users}
    /\ userSeq \in Len(sample_users)..MaxUserId
    /\ txSeq \in 0..MaxTxId

(***************************************************************************)
(* update_balance on its own: the repository function is called directly,  *)
(* with any account, class and new balance, on the seeded database.         *)
(***************************************************************************)
NewBalanceInputs == {Fin(Eighths(-50)), Fin(Eighths(100))}

call_update_balance ==
    \E user_id \in DOMAIN accounts, account_type \in {"C", "S"},
       new_balance \in NewBalanceInputs :
        /\ accounts' = update_balance(user_id, account_type, new_balance)
        /\ last' = [Call("update_balance", "", "")
                        EXCEPT !.user_id = user_id, !.account_type = account_type,
                               !.old_balance = get_balance(user_id, account_type),
                               !.new_balance = new_balance]
        /\ console' = <<>>
        /\ UNCHANGED <<users, transactions, userSeq, txSeq, csv, pc>>

NextRepository == call_update_balance

SpecRepository == Init /\ [][NextRepository]_vars

(***************************************************************************)
(* Two sessions: two processes run main() in the same directory, started   *)
(* on an absent database.  Every repository function opens its own         *)
(* connection and commits before it returns, and the program waits at      *)
(* input() between its calls, so the steps of one session interleave with  *)
(* the steps of the other at those points:                                 *)
(*   init_db: the count of the users, then the seeding in one transaction; *)
(*   make_transaction: get_user, (PIN and type prompts) get_balance,       *)
(*     (amount prompt) update_balance, then record_transaction: the INSERT *)
(*     and its commit, get_user_by_id, the test for the CSV file, the      *)
(*     open of the file for writing, the write of the header, the append   *)
(*     of the row;                                                         *)
(*   delete_account: get_user, then the three DELETEs in one transaction;  *)
(*   create_account: get_user, (PIN, name and deposit prompts) then        *)
(*     create_user in one transaction.                                     *)
(* The menu choices that write nothing (statistics, exit, an unknown       *)
(* choice) are not steps of a session.  pc maps a session to its position  *)
(* and to the locals of the function it is in.                             *)
(***************************************************************************)
Sessions == {1, 2}

\* a session at the menu: the locals are unset
AtMenu ==
    [at |-> "menu", user_id |-> 0, username |-> "", pin_hash |-> "",
     account_type |-> "", old_balance |-> None, amount |-> None,
     new_balance |-> None]

InitSessions ==
    /\ users = {}
    /\ accounts = <<>>
    /\ transactions = <<>>
    /\ userSeq = 0
    /\ txSeq = 0
    /\ csv = <<>>
    /\ pc = [s \in Sessions |-> [AtMenu EXCEPT !.at = "init_db"]]
    /\ console = <<>>
    /\ last = NoCall

\* the session returns to its menu (a return of the function it is in)
Return(s, printed, call) ==
    /\ pc' = [pc EXCEPT ![s] = AtMenu]
    /\ console' = printed
    /\ last' = call
    /\ UNCHANGED Db

\* an uncaught exception ends the process of the session
CrashSession(s, printed, exc, call) ==
    /\ pc' = [pc EXCEPT ![s] = [@ EXCEPT !.at = "crashed"]]
    /\ console' = printed \o <<"Traceback", exc>>
    /\ last' = call
    /\ UNCHANGED Db

\* init_db up to SELECT COUNT(*) FROM users: the tables exist from here on;
\* with a user in the table nothing is added and the menu follows
session_init_db(s) ==
    /\ pc[s].at = "init_db"
    /\ pc' = [pc EXCEPT ![s] = [@ EXCEPT !.at = IF users = {} THEN "seed" ELSE "menu"]]
    /\ console' = <<>>
    /\ last' = Call("init_db", "", "counted")
    /\ UNCHANGED Db

\* init_db after a count of 0: the INSERTs of the sample users in one
\* transaction; a username that is in the table by now violates UNIQUE, the
\* transaction is not committed and the process ends before its menu
session_seed(s) ==
    /\ pc[s].at = "seed"
    /\ IF \E u \in users : \E i \in 1..Len(sample_users) :
                u.username = sample_users[i].username
       THEN CrashSession(s, <<"Adding 3 sample test accounts...">>, "IntegrityError",
                         Call("init_db", "", "IntegrityError"))
       ELSE /\ users' = users \cup SeedUsers(userSeq)
            /\ accounts' = accounts @@ SeedAccounts(userSeq)
            /\ userSeq' = userSeq + Len(sample_users)
            /\ pc' = [pc EXCEPT ![s] = AtMenu]
            /\ console' = SeedMessages
            /\ last' = Call("init_db", "", "seeded")
            /\ UNCHANGED <<transactions, txSeq, csv>>

\* Mutant of new_balance: the amount is added to the balance stored at the
\* time of the write, not to the balance the session read.
new_balance_reread(old_balance, amount, user_id, account_type) ==
    IF user_id \notin DOMAIN accounts
    THEN FloatAdd(old_balance, amount)
    ELSE IF get_balance(user_id, account_type) = None
    THEN FloatAdd(old_balance, amount)
    ELSE FloatAdd(get_balance(user_id, account_type), amount)

\* new_balance = old_balance + amount, on the balance the session read
new_balance(old_balance, amount, user_id, account_type) == FloatAdd(old_balance, amount)

\* make_transaction: the username prompt and get_user; the session then
\* waits at the PIN prompt with the row it read
session_get_user(s) ==
    /\ pc[s].at = "menu"
    /\ \E uin \in UsernameInputs :
        LET username == Strip(uin)
            found == get_user(username)
        IN  IF found = {}
            THEN Return(s, <<"No such user.">>, Call("make_transaction", username, "nouser"))
            ELSE LET user == CHOOSE u \in found : TRUE
                 IN  /\ pc' = [pc EXCEPT ![s] =
                                 [AtMenu EXCEPT !.at = "pin", !.user_id = user.id,
                                                !.username = user.username,
                                                !.pin_hash = user.pin_hash]]
                     /\ console' = <<>>
                     /\ last' = [Call("make_transaction", username, "found")
                                    EXCEPT !.user_id = user.id]
                     /\ UNCHANGED Db

\* make_transaction from the PIN entered to the balance read: the PIN is
\* tested against the row read by get_user; get_balance raises TypeError when
\* the accounts row is gone (fetchone() is None), and so does the "Current
\* balance" message on a NULL balance; the session then waits at the amount
\* prompt
session_get_balance(s) ==
    /\ pc[s].at = "pin"
    /\ \E pin_in \in PinInputs :
        LET my == pc[s]
            pin == Strip(pin_in)
            call == [Call("make_transaction", my.username, "")
                        EXCEPT !.pin = pin, !.user_id = my.user_id]
        IN  IF PinRejected(pin, my)
            THEN Return(s, <<"Invalid PIN.">>,
                        [call EXCEPT !.outcome = "badpin", !.pin_mismatches = 1])
            ELSE \E tin \in TypeInputs :
                LET account_type == Upper(Strip(tin))
                    call2 == [call EXCEPT !.account_type = account_type]
                IN  IF account_type \notin {"C", "S"}
                    THEN Return(s, <<"Invalid account type.">>,
                                [call2 EXCEPT !.outcome = "badtype"])
                    ELSE IF my.user_id \notin DOMAIN accounts
                    THEN CrashSession(s, <<>>, "TypeError",
                                      [call2 EXCEPT !.outcome = "TypeError"])
                    ELSE IF get_balance(my.user_id, account_type) = None
                    THEN CrashSession(s, <<>>, "TypeError",
                                      [call2 EXCEPT !.outcome = "TypeError"])
                    ELSE LET old_balance == get_balance(my.user_id, account_type)
                         IN  /\ pc' = [pc EXCEPT ![s] =
                                         [@ EXCEPT !.at = "amount",
                                                   !.account_type = account_type,
                                                   !.old_balance = old_balance]]
                             /\ console' = <<"Current balance">>
                             /\ last' = [call2 EXCEPT !.old_balance = old_balance,
                                                      !.outcome = "read"]
                             /\ UNCHANGED Db

\* make_transaction from the amount entered to the commit of update_balance
session_update_balance(s) ==
    /\ pc[s].at = "amount"
    /\ \E ain \in AmountInputs :
        LET my == pc[s]
            amount == ParseFloat(ain)
            call == [Call("make_transaction", my.username, "")
                        EXCEPT !.user_id = my.user_id, !.account_type = my.account_type,
                               !.old_balance = my.old_balance]
        IN  IF amount = ValueError
            THEN Return(s, <<"Invalid amount.">>, [call EXCEPT !.outcome = "badamount"])
            ELSE IF InsufficientFunds(my.old_balance, amount)
            THEN Return(s, <<"Insufficient funds.">>,
                        [call EXCEPT !.amount = amount, !.outcome = "insufficient"])
            ELSE LET new == new_balance(my.old_balance, amount,
                                        my.user_id, my.account_type)
                 IN  /\ txSeq + Cardinality({r \in Sessions : pc[r].at = "record"})
                            < MaxTxId
                     /\ accounts' = update_balance(my.user_id, my.account_type, new)
                     /\ pc' = [pc EXCEPT ![s] = [@ EXCEPT !.at = "record",
                                                          !.amount = amount,
                                                          !.new_balance = new]]
                     /\ console' = <<>>
                     /\ last' = [call EXCEPT !.amount = amount, !.new_balance = new,
                                             !.outcome = "written"]
                     /\ UNCHANGED <<users, transactions, userSeq, txSeq, csv>>

\* the history record of a session that is in record_transaction
SessionCall(s) ==
    [Call("make_transaction", pc[s].username, "")
        EXCEPT !.user_id = pc[s].user_id, !.account_type = pc[s].account_type,
               !.old_balance = pc[s].old_balance, !.amount = pc[s].amount,
               !.new_balance = pc[s].new_balance]

\* the session moves to its next step and prints nothing
Goto(s, at, outcome) ==
    /\ pc' = [pc EXCEPT ![s] = [@ EXCEPT !.at = at]]
    /\ console' = <<>>
    /\ last' = [SessionCall(s) EXCEPT !.outcome = outcome]

\* record_transaction of the session: the INSERT and its commit (foreign keys
\* are not enforced, so the row of a deleted user is inserted as well)
session_record_transaction(s) ==
    /\ pc[s].at = "record"
    /\ LET my == pc[s]
       IN  IF ~TxNotNull(my.old_balance, my.amount, my.new_balance)
           THEN CrashSession(s, <<>>, "IntegrityError",
                             [SessionCall(s) EXCEPT !.outcome = "IntegrityError"])
           ELSE /\ transactions' = Append(transactions,
                        TxRow(txSeq + 1, my.user_id, my.account_type,
                              my.old_balance, my.amount, my.new_balance))
                /\ txSeq' = txSeq + 1
                /\ Goto(s, "get_user_by_id", "inserted")
                /\ UNCHANGED <<users, accounts, userSeq, csv>>

\* user = get_user_by_id(user_id); without a row the CSV log is skipped and
\* make_transaction prints its last message
session_get_user_by_id(s) ==
    /\ pc[s].at = "get_user_by_id"
    /\ LET user == get_user_by_id(pc[s].user_id)
       IN  IF user = {}
           THEN Return(s, <<"Transaction complete.">>,
                       [SessionCall(s) EXCEPT !.outcome = "complete"])
           ELSE /\ pc' = [pc EXCEPT ![s] =
                            [@ EXCEPT !.at = "ensure_csv_header",
                                      !.username = (CHOOSE u \in user : TRUE).username]]
                /\ console' = <<>>
                /\ last' = [SessionCall(s) EXCEPT !.outcome = "looked up"]
                /\ UNCHANGED Db

\* ensure_csv_header: the test os.path.exists(CSV_LOG), true of every file
\* that exists, with or without content
session_ensure_csv_header(s) ==
    /\ pc[s].at = "ensure_csv_header"
    /\ Goto(s, IF csv = <<>> THEN "open" ELSE "log_to_csv", "tested")
    /\ UNCHANGED Db

\* ensure_csv_header after the test found no file: open(CSV_LOG, 'w') creates
\* the file, or truncates what it holds by now
session_open(s) ==
    /\ pc[s].at = "open"
    /\ csv' = EmptyFile
    /\ Goto(s, "write_header", "opened")
    /\ UNCHANGED <<users, accounts, transactions, userSeq, txSeq>>

\* the bytes of a field in the file: a timestamp is
\* datetime.now().isoformat(timespec='seconds')
FieldBytes(field) == IF field = Now THEN Len("YYYY-MM-DDTHH:MM:SS") ELSE Len(field)

RECURSIVE FieldsBytes(_)
FieldsBytes(line) ==
    IF line = <<>> THEN 0 ELSE FieldBytes(Head(line)) + FieldsBytes(Tail(line))

\* the bytes of a line written by csv.writer: the fields, a comma between
\* two fields, and the line end "\r\n"
LineBytes(line) == FieldsBytes(line) + (Len(line) - 1) + 2

\* what reads of a line after its first n bytes were overwritten, with
\* 0 < n < LineBytes(line): the cut falls inside a field, before the comma
\* that follows a field (an empty field is read), or after that comma (the
\* fields that follow are whole); of the last field only the line end may
\* remain, a blank line
RECURSIVE CutLine(_, _)
CutLine(line, n) ==
    IF n = 0 THEN line
    ELSE IF n < FieldBytes(Head(line)) THEN <<Partial>> \o Tail(line)
    ELSE IF Len(line) = 1 THEN <<>>
    ELSE IF n = FieldBytes(Head(line)) THEN <<"">> \o Tail(line)
    ELSE CutLine(Tail(line), n - FieldBytes(Head(line)) - 1)

\* the lines of the file that follow its first n bytes
RECURSIVE Overwritten(_, _)
Overwritten(file, n) ==
    IF file = <<>> \/ n = 0 THEN file
    ELSE IF LineBytes(Head(file)) <= n
    THEN Overwritten(Tail(file), n - LineBytes(Head(file)))
    ELSE <<CutLine(Head(file), n)>> \o Tail(file)

\* the file after the header is written at offset 0 of a file opened for
\* writing before: the bytes of the header replace as many bytes of what
\* was appended since the open
write_header(file) ==
    IF file = <<>> \/ file = EmptyFile THEN <<CsvHeader>>
    ELSE <<CsvHeader>> \o Overwritten(file, LineBytes(CsvHeader))

\* ensure_csv_header: the header reaches the file when the with block is left
session_write_header(s) ==
    /\ pc[s].at = "write_header"
    /\ csv' = write_header(csv)
    /\ Goto(s, "log_to_csv", "header written")
    /\ UNCHANGED <<users, accounts, transactions, userSeq, txSeq>>

\* log_to_csv after ensure_csv_header: the row is appended, and
\* make_transaction prints its last message
session_log_to_csv(s) ==
    /\ pc[s].at = "log_to_csv"
    /\ csv' = AppendLine(csv, CsvRow(pc[s].username, pc[s].account_type,
                                     pc[s].old_balance, pc[s].amount,
                                     pc[s].new_balance))
    /\ pc' = [pc EXCEPT ![s] = AtMenu]
    /\ console' = <<"Transaction complete.">>
    /\ last' = [SessionCall(s) EXCEPT !.outcome = "complete"]
    /\ UNCHANGED <<users, accounts, transactions, userSeq, txSeq>>

\* delete_account: the username prompt and get_user
session_delete_account(s) ==
    /\ pc[s].at = "menu"
    /\ \E uin \in UsernameInputs :
        LET username == Strip(uin)
            found == get_user(username)
        IN  IF found = {}
            THEN Return(s, <<"User not found.">>,
                        Call("delete_account", username, "notfound"))
            ELSE LET user == CHOOSE u \in found : TRUE
                 IN  /\ pc' = [pc EXCEPT ![s] =
                                 [AtMenu EXCEPT !.at = "delete", !.user_id = user.id,
                                                !.username = user.username]]
                     /\ console' = <<>>
                     /\ last' = [Call("delete_account", username, "found")
                                    EXCEPT !.user_id = user.id]
                     /\ UNCHANGED Db

\* delete_account: the three DELETEs by the id read, and their commit
session_delete_rows(s) ==
    /\ pc[s].at = "delete"
    /\ LET user_id == pc[s].user_id
       IN  /\ transactions' = SelectSeq(transactions, LAMBDA t : t.user_id # user_id)
           /\ accounts' = [uid \in DOMAIN accounts \ {user_id} |-> accounts[uid]]
           /\ users' = {u \in users : u.id # user_id}
           /\ last' = [Call("delete_account", pc[s].username, "deleted")
                          EXCEPT !.user_id = user_id]
    /\ pc' = [pc EXCEPT ![s] = AtMenu]
    /\ console' = <<"Account deleted successfully.">>
    /\ UNCHANGED <<userSeq, txSeq, csv>>

\* create_account: the username prompt and get_user; the session then waits
\* at the PIN prompt
session_create_account(s) ==
    /\ pc[s].at = "menu"
    /\ \E uin \in UsernameInputs :
        LET username == Strip(uin)
        IN  IF username = ""
            THEN Return(s, <<"Username cannot be empty.">>,
                        Call("create_account", username, "empty"))
            ELSE IF get_user(username) # {}
            THEN Return(s, <<"Username already exists.">>,
                        Call("create_account", username, "exists"))
            ELSE /\ pc' = [pc EXCEPT ![s] =
                            [AtMenu EXCEPT !.at = "create_pin", !.username = username]]
                 /\ console' = <<>>
                 /\ last' = Call("create_account", username, "free")
                 /\ UNCHANGED Db

\* create_account from the PIN entered to the commit of create_user: the
\* INSERT of a username that is in the table by now violates UNIQUE, and the
\* process ends
session_create_user(s) ==
    /\ pc[s].at = "create_pin"
    /\ \E pin_in \in NewPinInputs :
        LET username == pc[s].username
            pin_input == Strip(pin_in)
        IN  IF ~IsFourDigits(pin_input)
            THEN Return(s, <<"Invalid PIN format.">>,
                        Call("create_account", username, "badpin"))
            ELSE IF get_user(username) # {}
            THEN CrashSession(s, <<>>, "IntegrityError",
                              Call("create_account", username, "IntegrityError"))
            ELSE \E name \in NameInputs, cin \in CheckingInputs,
                    sin \in SavingsInputs :
                 /\ userSeq < MaxUserId
                 /\ create_user(userSeq + 1, username, Strip(name), hash_pin(pin_input),
                                DepositOrZero(cin), DepositOrZero(sin))
                 /\ pc' = [pc EXCEPT ![s] = AtMenu]
                 /\ console' = <<"Account created successfully.">>
                 /\ last' = [Call("create_account", username, "created")
                                EXCEPT !.user_id = userSeq + 1]
                 /\ UNCHANGED <<transactions, txSeq, csv>>

NextSessions ==
    \E s \in Sessions :
        \/ session_init_db(s)
        \/ session_seed(s)
        \/ session_get_user(s)
        \/ session_get_balance(s)
        \/ session_update_balance(s)
        \/ session_record_transaction(s)
        \/ session_get_user_by_id(s)
        \/ session_ensure_csv_header(s)
        \/ session_open(s)
        \/ session_write_header(s)
        \/ session_log_to_csv(s)
        \/ session_create_account(s)
        \/ session_create_user(s)
        \/ session_delete_account(s)
        \/ session_delete_rows(s)

SpecSessions == InitSessions /\ [][NextSessions]_vars

(***************************************************************************)
(* Properties                                                              *)
(***************************************************************************)
\* a float that is a number >= 0 (NULL and nan are not)
NonNegative(x) == (x.k = "fin" /\ x.v >= 0) \/ x.k = "inf"

\* the users row with the given username, in the given users table
UserNamed(table, username) == CHOOSE u \in table : u.username = username

\* a line of the CSV file that is a whole audit record: six fields, none
\* of them cut or empty
IsRecord(line) ==
    /\ Len(line) = Len(CsvHeader)
    /\ line # CsvHeader
    /\ \A i \in 1..Len(line) : line[i] \notin {Partial, ""}

\* the audit records of the CSV file, in the order of the file
CsvData(file) == SelectSeq(file, IsRecord)

\* C1: in every reachable state every existing account's checking balance and
\* savings balance are each >= 0, also for an account created with a
\* syntactically valid negative initial deposit.
C1_BalancesNonNegative ==
    \A u \in users :
        /\ NonNegative(accounts[u.id].checking)
        /\ NonNegative(accounts[u.id].savings)

\* C2: a make_transaction whose balance write commits stores as the new
\* balance of the chosen class exactly oldBalance + amount, and that stored
\* balance is >= 0.
C2_CommittedBalanceIsSum ==
    (/\ last.op = "make_transaction"
     /\ last.outcome \in {"complete", "csv failed", "lookup failed", "insert failed",
                          "IntegrityError"})
    => LET stored == accounts[last.user_id][Column(last.account_type)]
       IN  /\ stored = FloatAdd(last.old_balance, last.amount)
           /\ NonNegative(stored)

\* C3: a make_transaction whose amount makes oldBalance + amount < 0 is
\* rejected as insufficient funds: no balance of any account changes and no
\* record is added to the transactions table or to the CSV log.
C3_OverdraftRejected ==
    [][ LET c == last'
        IN  (/\ c.op = "make_transaction"
             /\ c.old_balance.k = "fin"
             /\ c.amount.k = "fin"
             /\ c.old_balance.v + c.amount.v < 0)
            => /\ console' = <<"Current balance", "Insufficient funds.">>
               /\ pc' = "menu"
               /\ UNCHANGED <<users, accounts, transactions, userSeq, txSeq, csv>> ]_vars

\* C3 witness: a withdrawal larger than the balance has just been refused.
C3_Witness ==
    /\ last.op = "make_transaction"
    /\ last.outcome = "insufficient"
    /\ last.old_balance.k = "fin"
    /\ last.old_balance.v >= 0
    /\ last.amount = Fin(Eighths(-500))
    /\ last.old_balance.v + last.amount.v < 0
    /\ Len(transactions) > 0

\* C4: every make_transaction that completes adds exactly one record to the
\* transactions table and one row to the CSV log; the record holds the user
\* id of the named account, the account class, the balance read before the
\* call, the amount entered and the balance stored after the call (the CSV row
\* holds the username and the same three numbers to two decimals); and no
\* step other than a make_transaction that reached its audit append (not a
\* rejected transaction, an account creation, a deletion or the statistics)
\* adds a record.
C4_OneRecordPerTransaction ==
    [][ LET c == last'
            completed == console' = <<"Current balance", "Transaction complete.">>
            u == UserNamed(users, c.username)
            col == Column(c.account_type)
        IN  /\ completed =>
                /\ Len(transactions') = Len(transactions) + 1
                /\ SubSeq(transactions', 1, Len(transactions)) = transactions
                /\ LET r == transactions'[Len(transactions')]
                   IN  /\ r.user_id = u.id
                       /\ r.account_type = c.account_type
                       /\ r.old_balance = accounts[u.id][col]
                       /\ r.amount = c.amount
                       /\ r.new_balance = accounts'[u.id][col]
                /\ Len(CsvData(csv')) = Len(CsvData(csv)) + 1
                /\ csv'[Len(csv')] =
                       <<Now, u.username, c.account_type, Fmt2(accounts[u.id][col]),
                         Fmt2(c.amount), Fmt2(accounts'[u.id][col])>>
            /\ (Len(transactions') > Len(transactions) \/ csv' # csv) =>
                /\ c.op = "make_transaction"
                /\ c.outcome \in {"complete", "csv failed", "lookup failed"}
                /\ accounts'[u.id][col] = FloatAdd(accounts[u.id][col], c.amount)
      ]_vars

\* C4 witness: a completed transaction whose amount the CSV row rounds.
C4_Witness ==
    /\ console = <<"Current balance", "Transaction complete.">>
    /\ last.amount = Fin(1)
    /\ Len(transactions) = 2
    /\ Len(csv) = 3
    /\ csv[3][5] = "0.12"

\* C5: after delete_account succeeds the account is found neither by username
\* nor by id, and no audit record of it remains in the transactions table or
\* in the CSV log.
C5_DeleteRemovesAuditRecords ==
    (last.op = "delete_account" /\ last.outcome = "deleted")
    => /\ get_user(last.username) = {}
       /\ get_user_by_id(last.user_id) = {}
       /\ \A i \in 1..Len(transactions) : transactions[i].user_id # last.user_id
       /\ \A i \in 1..Len(CsvData(csv)) : CsvData(csv)[i][2] # last.username

\* C6: a PIN mismatch on attempt 1 or 2 of a login lets the user enter the
\* PIN again, and the session leaves the login flow unauthenticated only
\* after the third consecutive mismatch.
C6_ThreePinAttempts ==
    (/\ last.op = "make_transaction"
     /\ console = <<"Invalid PIN.">>
     /\ pc = "menu")
    => last.pin_mismatches >= 3

\* C7: a make_transaction that fails validation (unknown username, PIN whose
\* hash differs from the stored digest, account class other than C or S,
\* non-numeric amount) changes no table and no file; and a make_transaction
\* changes a balance or writes an audit record only when the PIN entered
\* hashes to the stored digest of the named account.
C7_ValidationFailureChangesNothing ==
    [][ LET c == last'
            named == {u \in users : u.username = c.username}
            rejected ==
                \/ named = {}
                \/ \E u \in named : hash_pin(c.pin) # u.pin_hash
                \/ c.account_type \notin {"C", "S"}
                \/ console' = <<"Current balance", "Invalid amount.">>
        IN  c.op = "make_transaction" =>
                /\ rejected =>
                       UNCHANGED <<users, accounts, transactions, userSeq, txSeq, csv>>
                /\ (accounts' # accounts \/ transactions' # transactions \/ csv' # csv)
                       => \E u \in named : hash_pin(c.pin) = u.pin_hash
      ]_vars

\* C7 witness: a well-formed PIN that is not the PIN of the named account has
\* been refused after transactions were recorded.
C7_Witness ==
    /\ last.op = "make_transaction"
    /\ console = <<"Invalid PIN.">>
    /\ last.username = "alice"
    /\ last.pin = "2222"
    /\ Len(transactions) > 0

\* C8: the balance write precedes the audit append, and a balance write that
\* fails ends the transaction before any audit append: a step that adds an
\* audit record (to the transactions table or to the CSV log) has stored the
\* record's new balance in the account, and a step whose balance write raised
\* adds no record.
C8_NoAuditWithoutBalanceWrite ==
    [][ LET c == last'
        IN  /\ Len(transactions') > Len(transactions) =>
                LET r == transactions'[Len(transactions')]
                IN  /\ accounts'[r.user_id][Column(r.account_type)] = r.new_balance
                    /\ accounts[r.user_id][Column(r.account_type)] = r.old_balance
                    /\ accounts' # accounts
            /\ csv' # csv =>
                /\ Len(transactions') > Len(transactions)
                /\ accounts' # accounts
            /\ (c.op = "make_transaction" /\ c.outcome = "update failed") =>
                /\ UNCHANGED <<accounts, transactions, txSeq, csv>>
                /\ pc' = "crashed"
      ]_vars

\* C8 witness: the balance write of a transaction raised and the run ended
\* with the balance and the audit trail as they were.
C8_Witness ==
    /\ last.op = "make_transaction"
    /\ last.outcome = "update failed"
    /\ pc = "crashed"
    /\ accounts[last.user_id][Column(last.account_type)] = last.old_balance
    /\ Len(transactions) = 1

\* C9: when the audit append fails after the balance write has committed, the
\* new balance stays stored, the failure is reported as a warning and the
\* session continues at the menu.
C9_AuditFailureIsWarning ==
    (/\ last.op = "make_transaction"
     /\ last.outcome \in {"insert failed", "lookup failed", "csv failed",
                          "IntegrityError"})
    => /\ accounts[last.user_id][Column(last.account_type)] = SqlBind(last.new_balance)
       /\ pc = "menu"

\* C10: the audit trail is append-only.  A step of the session leaves the
\* whole records of the CSV log in place and adds at most one record after
\* them; a step leaves the transactions table as it is, or adds
\* one record after the others with a larger id, or is the deletion of an
\* account and removes exactly the records of that account, keeping the
\* others in order.
C10_AuditAppendOnly ==
    [][ /\ \/ csv' = csv
           \/ LET before == CsvData(csv)
                  after == CsvData(csv')
              IN  /\ Len(after) \in {Len(before), Len(before) + 1}
                  /\ SubSeq(after, 1, Len(before)) = before
        /\ \/ transactions' = transactions
           \/ /\ Len(transactions') = Len(transactions) + 1
              /\ SubSeq(transactions', 1, Len(transactions)) = transactions
              /\ \A i \in 1..Len(transactions) :
                    transactions[i].id < transactions'[Len(transactions')].id
           \/ /\ last'.op = "delete_account"
              /\ get_user(last'.username) # {}
              /\ \A u \in users' : u.username # last'.username
              /\ LET gone == UserNamed(users, last'.username).id
                     kept == {i \in 1..Len(transactions) : transactions[i].user_id # gone}
                 IN  /\ Len(transactions') = Cardinality(kept)
                     /\ \A i \in 1..Len(transactions') :
                            LET j == CHOOSE j \in kept :
                                        Cardinality({k \in kept : k <= j}) = i
                            IN  transactions'[i] = transactions[j]
      ]_vars

\* C10 witness: the CSV log holds the header and two records, of two
\* transactions of different accounts, the second appended after the first.
C10_Witness ==
    /\ pc = "menu"
    /\ Len(transactions) = 2
    /\ transactions[1].id < transactions[2].id
    /\ transactions[1].user_id # transactions[2].user_id
    /\ Len(csv) = 3
    /\ csv[1] = CsvHeader
    /\ Len(CsvData(csv)) = 2
    /\ csv[2][2] # csv[3][2]

\* C11: create_account with a username that already exists is refused as a
\* duplicate: no account is added, every existing account keeps its id,
\* username, name, PIN hash and balances, no audit record is written; and in
\* every reachable state no two accounts share a username.
C11_DuplicateUsernameRejected ==
    /\ [](\A u, w \in users : u.username = w.username => u = w)
    /\ [][ LET c == last'
           IN  (/\ c.op = "create_account"
                /\ \E u \in users : u.username = c.username)
               => /\ UNCHANGED <<users, accounts, transactions, userSeq, txSeq, csv>>
                  /\ console' = <<"Username already exists.">>
                  /\ pc' = "menu" ]_vars

\* C11 witness: creating dave again has been refused, with dave's account
\* and a recorded transaction in place.
C11_Witness ==
    /\ last.op = "create_account"
    /\ last.username = "dave"
    /\ console = <<"Username already exists.">>
    /\ Cardinality({u \in users : u.username = "dave"}) = 1
    /\ Len(transactions) > 0

\* C12: update_balance called with a negative new balance refuses the write
\* and leaves the stored balance as it was, whatever its caller checked.
C12_NegativeWriteRejected ==
    (/\ last.op = "update_balance"
     /\ last.new_balance.k = "fin"
     /\ last.new_balance.v < 0)
    => accounts[last.user_id][Column(last.account_type)] = last.old_balance

\* C13: an invalid PIN entry during account creation does not end the
\* setup (the user may retry, and after three invalid entries a PIN is
\* generated), so create_account with a fresh non-empty username always ends
\* with the account created.
C13_CreationAlwaysEndsWithAccount ==
    (/\ last.op = "create_account"
     /\ last.username # ""
     /\ console # <<"Username already exists.">>)
    => get_user(last.username) # {}

\* the four-digit strings of the model
PinUniverse == {"1111", "2222", "3333", "4444", "9999"}

\* the PINs of the existing accounts: the strings whose hash is a stored digest
AccountPins == {p \in PinUniverse : \E u \in users : hash_pin(p) = u.pin_hash}

\* the text fields of the three tables and of the CSV file
StoredStrings ==
    UNION {{u.username, u.pin_hash, u.name} : u \in users}
    \cup {transactions[i].account_type : i \in 1..Len(transactions)}
    \cup UNION {{csv[i][j] : j \in 1..Len(csv[i])} : i \in 1..Len(csv)}

\* the pieces of text on the console
ConsoleStrings == {console[i] : i \in 1..Len(console)}

\* C14 as stated: no clear-text PIN of an account appears in the users
\* table, the transactions table, the CSV log or the console output, the
\* sample accounts included.
C14_NoClearTextPinAnywhere ==
    \A p \in AccountPins : p \notin StoredStrings \cup ConsoleStrings

\* C14 amended: no clear-text PIN of an account appears in the users table,
\* the transactions table or the CSV log, nor in what create_account,
\* delete_account, make_transaction or view_statistics print; the only PINs
\* on the console are those of the three sample accounts, in the message
\* init_db prints when it adds them.
C14_ClearTextPinOnlyInSeedMessage ==
    /\ \A p \in AccountPins : p \notin StoredStrings
    /\ \A p \in PinUniverse :
          p \in ConsoleStrings =>
              /\ last.op = "init_db"
              /\ console = SeedMessages
              /\ \E i \in 1..Len(sample_users) : sample_users[i].pin_hash = hash_pin(p)

\* C14 witness: an account created with PIN 2222 has completed a logged
\* transaction.
C14_Witness ==
    /\ last.op = "make_transaction"
    /\ last.username = "dave"
    /\ last.pin = "2222"
    /\ console = <<"Current balance", "Transaction complete.">>
    /\ UserNamed(users, "dave").pin_hash = hash_pin("2222")
    /\ Len(csv) = 2

\* C15: when two sessions run make_transaction concurrently on the same
\* account and class, their balance reads and balance writes can interleave
\* so that both commit and the stored balance differs from the initial
\* balance plus both amounts (the state of C15_Witness); in every
\* interleaving each audit record still reports old balance + amount = new
\* balance: every row of the transactions table and every record a session
\* is about to write, at every time; and the CSV log gains a whole record
\* only by the append of a session, which appends the formatted copy of the
\* record it holds.
C15_EachRecordReportsItsOwnSum ==
    /\ [](/\ \A i \in 1..Len(transactions) :
              LET t == transactions[i]
              IN  /\ t.old_balance.k = "fin" /\ t.amount.k = "fin"
                  /\ t.new_balance.k = "fin"
                  /\ t.new_balance.v = t.old_balance.v + t.amount.v
          /\ \A s \in Sessions :
              (pc[s].at \in {"get_user_by_id", "ensure_csv_header", "open",
                             "write_header", "log_to_csv"})
                  => pc[s].new_balance.v = pc[s].old_balance.v + pc[s].amount.v)
    /\ [][ /\ \A s \in Sessions :
              (pc[s].at = "log_to_csv" /\ pc'[s].at = "menu")
                  => /\ Len(CsvData(csv')) = Len(CsvData(csv)) + 1
                     /\ csv'[Len(csv')] =
                            <<Now, pc[s].username, pc[s].account_type,
                              Fmt2(pc[s].old_balance), Fmt2(pc[s].amount),
                              Fmt2(pc[s].new_balance)>>
                     /\ pc[s].new_balance.v = pc[s].old_balance.v + pc[s].amount.v
           /\ Len(CsvData(csv')) > Len(CsvData(csv))
                  => \E s \in Sessions :
                        pc[s].at = "log_to_csv" /\ pc'[s].at = "menu"
         ]_vars

\* both sessions have committed a transaction on the same account and class,
\* each record reports its own sum, and the stored balance is not the initial
\* balance plus the two amounts: one update is lost
C15_Witness ==
    /\ \A s \in Sessions : pc[s].at = "menu"
    /\ Len(transactions) = 2
    /\ LET t1 == transactions[1]
           t2 == transactions[2]
       IN  /\ t1.user_id = t2.user_id
           /\ t1.account_type = t2.account_type
           /\ t1.new_balance.v = t1.old_balance.v + t1.amount.v
           /\ t2.new_balance.v = t2.old_balance.v + t2.amount.v
           /\ t1.user_id \in DOMAIN accounts
           /\ t1.user_id \in DOMAIN SeedAccounts(0)
           /\ LET stored == get_balance(t1.user_id, t1.account_type)
                  initial == SeedAccounts(0)[t1.user_id][Column(t1.account_type)]
              IN  /\ stored.k = "fin"
                  /\ stored.v # initial.v + t1.amount.v + t2.amount.v

\* the CSV rows attributed to an account and class: the log names the account
\* by its username
CsvRowsOf(username, account_type) ==
    SelectSeq(CsvData(csv), LAMBDA row : row[2] = username /\ row[3] = account_type)

\* the transactions rows attributed to an account and class, by user id
TxRowsOf(user_id, account_type) ==
    SelectSeq(transactions,
              LAMBDA t : t.user_id = user_id /\ t.account_type = account_type)

\* C16: in a run with no storage failure, for every existing account and each
\* class the audit records attributed to it chain (each record's old balance
\* is the previous record's new balance) and lead from the balance at
\* creation to the stored balance, so that the last record's new balance is
\* the stored balance; also after an account was deleted and a new one
\* created with the same username.
C16_RecordsLeadToStoredBalance ==
    pc = "menu" =>
        \A u \in users, account_type \in {"C", "S"} :
            LET stored == get_balance(u.id, account_type)
                rows == CsvRowsOf(u.username, account_type)
                txs == TxRowsOf(u.id, account_type)
            IN  /\ \A i \in 1..(Len(rows) - 1) : rows[i + 1][4] = rows[i][6]
                /\ rows # <<>> =>
                       (stored.k = "fin" /\ rows[Len(rows)][6] = Fmt2(stored))
                /\ \A i \in 1..(Len(txs) - 1) :
                       txs[i + 1].old_balance = txs[i].new_balance
                /\ txs # <<>> => txs[Len(txs)].new_balance = stored

\* C17: a make_transaction whose balance write commits changes only the
\* balance of the chosen account and class: the other class of the same
\* account, both balances of every other account, and every username, name
\* and PIN hash are left as they were.
C17_CommitChangesOnlyChosenBalance ==
    [][ (/\ last'.op = "make_transaction"
         /\ last'.outcome \in {"complete", "csv failed", "lookup failed",
                               "insert failed", "IntegrityError"})
        => /\ users' = users
           /\ DOMAIN accounts' = DOMAIN accounts
           /\ \A uid \in DOMAIN accounts, account_type \in {"C", "S"} :
                (uid # last'.user_id \/ account_type # last'.account_type)
                    => accounts'[uid][Column(account_type)]
                           = accounts[uid][Column(account_type)]
      ]_vars

\* a transaction of alice has committed a changed balance while dave, created
\* in this run, has an account of his own
C17_Witness ==
    /\ last.op = "make_transaction"
    /\ last.outcome = "complete"
    /\ last.username = "alice"
    /\ last.new_balance # last.old_balance
    /\ get_balance(last.user_id, last.account_type) = last.new_balance
    /\ get_user("dave") # {}
    /\ Cardinality(users) = 4

====
